---------------------------- MODULE Spec2Model ----------------------------
(***************************************************************************)
(* A model of the AstroLens-AI data preparation scripts:                   *)
(*   src/data/create_features_labels.py   (catalogue loader, labels)       *)
(*   src/data/combine_flare_catalogues.py (NOAA/HEK catalogue combiner)    *)
(*   src/data/process_flux_data.py        (flux batches, merge, resample)  *)
(* Each script is a state machine of its own; the specifications          *)
(* SpecLabel, SpecParse, SpecParsers, SpecCombine, SpecFlux and            *)
(* SpecFeatures share the module and leave the variables of the other      *)
(* scripts untouched.                                                      *)
(***************************************************************************)
EXTENDS Integers, Sequences, FiniteSets, TLC

VARIABLES
    \* ---- create_features_labels.py
    catalogue_dir,   \* the recognised catalogue files of RAW_FLARE_CATALOGUE_DIR
    flux_index,      \* flux_df.index: the timestamps of the flux rows (minutes)
    flare_df,        \* the frame load_flare_catalogue returned
    labels,          \* the list assign_labels_to_flux returned
    label_pc,        \* the script's position
    \* ---- combine_flare_catalogues.py: parse_standard_noaa_txt, line by line
    parse_file,      \* the file being parsed: its name's year and its lines
    line_num,        \* the number of lines read so far
    flare_events,    \* the events appended so far
    parse_log,       \* the diagnostic printed for each line read
    parse_pc,        \* the parser's position
    \* ---- combine_flare_catalogues.py: main
    noaa_dir,        \* the *.txt files of NOAA_DIR in sorted order
    hek_file,        \* HEK_FILE
    combined_out,    \* OUTPUT_PATH
    main_pc,         \* the position of main
    \* ---- process_flux_data.py
    RAW_DIR,         \* RAW_DIR: the number of *.nc files and the data in them
    tmp_chunks,      \* TEMP_DIR: chunk_<i>.parquet for each i
    tasks,           \* futures: the batch, the index and the state of each
    merged_df,       \* flux_df of merge_and_transform_chunks after line 110
    flux_out,        \* OUTPUT_PATH of the flux pipeline
    flux_pc,         \* the position of main
    run_no,          \* the number of the run of the script
    tmp_before,      \* TEMP_DIR as it was before the first run
    first_result,    \* TEMP_DIR and OUTPUT_PATH as the first finished run left them
    \* ---- create_features_labels.py: create_features
    feat_df,         \* the flux_log column of the frame passed to create_features
    final_df,        \* the frame create_features returned
    feat_pc          \* the script's position

labelVars == <<catalogue_dir, flux_index, flare_df, labels, label_pc>>

parseVars == <<parse_file, line_num, flare_events, parse_log, parse_pc>>

combineVars == <<noaa_dir, hek_file, combined_out, main_pc>>

fluxVars == <<RAW_DIR, tmp_chunks, tasks, merged_df, flux_out, flux_pc,
              run_no, tmp_before, first_result>>

featVars == <<feat_df, final_df, feat_pc>>

vars == <<labelVars, parseVars, combineVars, fluxVars, featVars>>

-----------------------------------------------------------------------------
(* Generic helpers over sequences.                                         *)

Range(s) == {s[i] : i \in DOMAIN s}

SeqsUpTo(S, n) == UNION {[1..k -> S] : k \in 0..n}

RECURSIVE Concat(_)
Concat(ss) == IF ss = <<>> THEN <<>> ELSE Head(ss) \o Concat(Tail(ss))

\* keep="first": a row survives unless an earlier row has the same key;
\* keys[i] is the key of s[i]
DropDuplicatesBy(s, keys) ==
    LET keep(i) == \A j \in 1..(i - 1) : keys[j] # keys[i]
        F[i \in 0..Len(s)] ==
            IF i = 0 THEN <<>>
            ELSE IF keep(i) THEN Append(F[i - 1], s[i]) ELSE F[i - 1]
    IN F[Len(s)]

\* a stable ascending sort: the positions of s ordered by the integer key
\* keys[i], equal keys in their order in s
SortedPositions(keys) ==
    LET before(i, j) == keys[i] < keys[j] \/ (keys[i] = keys[j] /\ i < j)
        rank(i) == Cardinality({j \in DOMAIN keys : before(j, i)}) + 1
    IN [k \in DOMAIN keys |-> CHOOSE i \in DOMAIN keys : rank(i) = k]

StableSortBy(s, keys) ==
    LET pos == SortedPositions(keys) IN [k \in DOMAIN s |-> s[pos[k]]]

-----------------------------------------------------------------------------
(* create_features_labels.py                                               *)
(* Time is counted in minutes.  A catalogue row is the pair of what its    *)
(* date and peak-time tokens denote under "%Y%m%d %H%M" (stamp_ok and the  *)
(* minute ts, or ~stamp_ok when they do not match the format) and its      *)
(* class token.  read_csv is given no dtype: the model takes the columns as *)
(* read as text, so that line 39 can join them.                            *)

prediction_window_hours == 24

MaxTick == 1      \* flux rows at minutes 0..MaxTick
MaxRows == 2      \* catalogue rows over all files of a directory

MinutesPerHour == 60

window == prediction_window_hours * MinutesPerHour

NoFlare == "No Flare"

ClassLetters == {"A", "B", "C", "M", "X"}

FluxTicks == 0..MaxTick

\* the minutes that sit on and around the window's two ends for some tick
EventTimes == FluxTicks \cup {t + window : t \in FluxTicks} \cup {MaxTick + window + 1}

CatalogueRows ==
    [stamp_ok : {TRUE}, ts : EventTimes, class : ClassLetters]
        \cup {[stamp_ok |-> FALSE, ts |-> 0, class |-> "C"],
              [stamp_ok |-> TRUE, ts |-> 0, class |-> "n"]}

\* line 24: the files of a directory: at most the two names the loader
\* looks for; `rows` are their rows in turn, the first file holding `cut`
CatalogueDir(n, rows, cut) ==
    CASE n = 0 -> <<>>
      [] n = 1 -> <<rows>>
      [] n = 2 -> <<SubSeq(rows, 1, cut), SubSeq(rows, cut + 1, Len(rows))>>

EmptyFrame == [dti |-> FALSE, rows |-> <<>>]

\* line 55: drop_duplicates(subset=["datetime", "class"])
drop_duplicate_rows(rows) ==
    DropDuplicatesBy(rows, [i \in DOMAIN rows |-> <<rows[i].ts, rows[i].class>>])

\* line 56: set_index("datetime").sort_index()
sort_index(rows) == StableSortBy(rows, [i \in DOMAIN rows |-> rows[i].ts])

\* the class filter of line 44 without "C"
parse_catalogue_file_filter_mx(file) ==
    IF file = <<>> \/ \E i \in DOMAIN file : ~file[i].stamp_ok
    THEN [ok |-> FALSE, rows |-> <<>>]
    ELSE [ok |-> TRUE,
          rows |-> SelectSeq(file, LAMBDA r : r.class \in {"M", "X"})]

\* lines 32-48: one file; "failed" when read_csv or to_datetime raises
parse_catalogue_file(file) ==
    IF file = <<>> \/ \E i \in DOMAIN file : ~file[i].stamp_ok
    THEN [ok |-> FALSE, rows |-> <<>>]
    ELSE [ok |-> TRUE,
          rows |-> SelectSeq(file, LAMBDA r : r.class \in {"C", "M", "X"})]

load_flare_catalogue(raw_dir) ==
    LET parsed == [i \in DOMAIN raw_dir |-> parse_catalogue_file(raw_dir[i])]
        all_flares == SelectSeq(parsed, LAMBDA p : p.ok)
        flares == Concat([i \in DOMAIN all_flares |-> all_flares[i].rows])
    IN IF all_flares = <<>> THEN EmptyFrame
       ELSE [dti |-> TRUE,
             rows |-> sort_index(drop_duplicate_rows(flares))]

\* the window of lines 93-96 with the present included
future_flares_from_now(timestamp, flare_events_df, w) ==
    SelectSeq(flare_events_df.rows,
              LAMBDA r : r.ts >= timestamp /\ r.ts <= timestamp + w)

\* lines 93-96: the rows of the frame inside the window of `timestamp`
future_flares(timestamp, flare_events_df, w) ==
    SelectSeq(flare_events_df.rows,
              LAMBDA r : r.ts > timestamp /\ r.ts <= timestamp + w)

\* lines 100-109
label_of(future_flare_classes) ==
    IF "X" \in future_flare_classes THEN "X"
    ELSE IF "M" \in future_flare_classes THEN "M"
    ELSE IF "C" \in future_flare_classes THEN "C"
    ELSE NoFlare

assign_labels_to_flux(index, flare_events_df, hours) ==
    [i \in DOMAIN index |->
        label_of({r.class : r \in
            Range(future_flares(index[i], flare_events_df, hours * MinutesPerHour))})]

\* the script is not run
IdleLabel ==
    /\ catalogue_dir = <<>>
    /\ flux_index = <<>>
    /\ flare_df = EmptyFrame
    /\ labels = <<>>
    /\ label_pc = "idle"

StartLabel ==
    /\ \E k \in 0..MaxRows : \E rows \in [1..k -> CatalogueRows] :
          \E n \in 0..2 : \E cut \in 0..k :
              /\ n = 0 => k = 0
              /\ n < 2 => cut = 0
              /\ catalogue_dir = CatalogueDir(n, rows, cut)
    /\ flux_index = [i \in 1..(MaxTick + 1) |-> i - 1]
    /\ flare_df = EmptyFrame
    /\ labels = <<>>
    /\ label_pc = "load"

\* line 60; lines 26-28 raise FileNotFoundError without a catalogue file
LoadFlareCatalogue ==
    /\ label_pc = "load"
    /\ IF catalogue_dir = <<>>
       THEN /\ label_pc' = "raised"
            /\ UNCHANGED flare_df
       ELSE /\ flare_df' = load_flare_catalogue(catalogue_dir)
            /\ label_pc' = "assign"
    /\ UNCHANGED <<catalogue_dir, flux_index, labels, parseVars, combineVars, fluxVars, featVars>>

\* line 115; lines 68-69 raise ValueError for a frame without a DatetimeIndex
AssignLabels ==
    /\ label_pc = "assign"
    /\ IF ~flare_df.dti
       THEN /\ label_pc' = "raised"
            /\ UNCHANGED labels
       ELSE /\ labels' = assign_labels_to_flux(flux_index, flare_df,
                                               prediction_window_hours)
            /\ label_pc' = "labelled"
    /\ UNCHANGED <<catalogue_dir, flux_index, flare_df, parseVars, combineVars, fluxVars, featVars>>

NextLabel == LoadFlareCatalogue \/ AssignLabels

-----------------------------------------------------------------------------
(* combine_flare_catalogues.py                                             *)
(* A line of a NOAA file is the record of what the parser reads in it:     *)
(*   prefix      it starts with "31777" and has at least 27 characters     *)
(*   yy_digits   line[5:7] is all digits                                   *)
(*   ddd_digits  line[7:10] is all digits, ddd its value                   *)
(*   peak_len    the number of digits in line[18:22]; hh, mm their value   *)
(*   letter, mag the first candidate class token after column 27: its      *)
(*               letter and the number that follows it (0: no digits)      *)
(* A class string such as "C1.0" is the record [letter, mag]; a missing    *)
(* class (NaN) is NoClass.  An event's time is ts, in minutes from the     *)
(* first day of the first year of Years; ts_ok is FALSE for NaT.           *)

MaxLines == 2       \* lines of the file parsed line by line
MaxNoaaFiles == 2   \* *.txt files in NOAA_DIR
MaxReports == 2     \* NOAA lines and HEK rows of one combine run

Years == {2019, 2020}

NoYear == 0

IsLeap(y) == y % 4 = 0 /\ (y % 100 # 0 \/ y % 400 = 0)

DaysInYear(y) == IF IsLeap(y) THEN 366 ELSE 365

\* days from January 1 of the first year to January 1 of y
DaysBefore(y) ==
    LET first == CHOOSE a \in Years : \A b \in Years : a <= b
        F[z \in first..y] == IF z = first THEN 0 ELSE F[z - 1] + DaysInYear(z - 1)
    IN F[y]

NoClass == [letter |-> "", mag |-> 0]

GoodLine ==
    [prefix |-> TRUE, yy_digits |-> TRUE, ddd_digits |-> TRUE, ddd |-> 1,
     peak_len |-> 4, hh |-> 0, mm |-> 0, letter |-> "C", mag |-> 1]

\* well-formed lines, and lines with one field spoiled
NoaaLines ==
    {[GoodLine EXCEPT !.ddd = d, !.letter = c[1], !.mag = c[2]] :
        d \in {1, 365}, c \in {<<"C", 1>>, <<"X", 2>>}}
    \cup {[GoodLine EXCEPT !.hh = 23, !.mm = 59]}
    \cup {[GoodLine EXCEPT !.prefix = FALSE],
          [GoodLine EXCEPT !.yy_digits = FALSE],
          [GoodLine EXCEPT !.ddd_digits = FALSE, !.ddd = 0],
          [GoodLine EXCEPT !.peak_len = 3],
          [GoodLine EXCEPT !.hh = 24],
          [GoodLine EXCEPT !.mm = 60],
          [GoodLine EXCEPT !.letter = "Z"],
          [GoodLine EXCEPT !.mag = 0]}
    \cup {[GoodLine EXCEPT !.ddd = d] : d \in {0, 366, 367}}

NoaaFiles == [year : Years \cup {NoYear}, skipped : {FALSE},
              lines : SeqsUpTo(NoaaLines, MaxLines)]

\* lines 57-58: base_date + timedelta(days=ddd - 1), then lines 67-70
peak_dt(file_year, line) ==
    ((DaysBefore(file_year) + line.ddd - 1) * 24 + line.hh) * 60 + line.mm

\* lines 36-97: what one line of the loop does: the diagnostic it prints
\* and, for "PARSED OK", the event it appends
try_parse_record(file_year, line) ==
    IF ~line.prefix
    THEN [diag |-> "skipped (header/too short/no 31777 prefix)"]
    ELSE IF ~line.yy_digits \/ ~line.ddd_digits
    THEN [diag |-> "skipped (Malformed YY/DDD)"]
    ELSE IF line.peak_len # 4
    THEN [diag |-> "skipped (Malformed peak time after clean)"]
    ELSE IF line.hh > 23 \/ line.mm > 59
    THEN [diag |-> "FAILED TO PARSE (ValueError)"]
    ELSE IF line.letter \in {"A", "B", "C", "M", "X"} /\ line.mag > 0
    THEN [diag |-> "PARSED OK",
          event |-> [ts_ok |-> TRUE, ts |-> peak_dt(file_year, line),
                     class |-> [letter |-> line.letter, mag |-> line.mag]]]
    ELSE [diag |-> "skipped (No valid X-ray class found by regex)"]

\* lines 17-98: the whole function: the events of the file, in line order
parse_standard_noaa_txt(file) ==
    IF file.year = NoYear THEN <<>>
    ELSE LET res == [i \in DOMAIN file.lines |->
                        try_parse_record(file.year, file.lines[i])]
             ok == SelectSeq(res, LAMBDA r : r.diag = "PARSED OK")
         IN [i \in DOMAIN ok |-> ok[i].event]

IdleParse ==
    /\ parse_file = [year |-> NoYear, skipped |-> FALSE, lines |-> <<>>]
    /\ line_num = 0
    /\ flare_events = <<>>
    /\ parse_log = <<>>
    /\ parse_pc = "idle"

StartParse ==
    /\ parse_file \in NoaaFiles
    /\ line_num = 0
    /\ flare_events = <<>>
    /\ parse_log = <<>>
    /\ parse_pc = "open"

\* lines 18-23: no year in the file name: an empty frame
ParseNoYear ==
    /\ parse_pc = "open"
    /\ parse_file.year = NoYear
    /\ parse_pc' = "returned"
    /\ UNCHANGED <<parse_file, line_num, flare_events, parse_log>>
    /\ UNCHANGED <<labelVars, combineVars, fluxVars, featVars>>

\* line 28: the file is opened
ParseOpen ==
    /\ parse_pc = "open"
    /\ parse_file.year # NoYear
    /\ parse_pc' = "lines"
    /\ UNCHANGED <<parse_file, line_num, flare_events, parse_log>>
    /\ UNCHANGED <<labelVars, combineVars, fluxVars, featVars>>

\* lines 29-97: one turn of the loop
ParseLine ==
    /\ parse_pc = "lines"
    /\ line_num < Len(parse_file.lines)
    /\ LET r == try_parse_record(parse_file.year, parse_file.lines[line_num + 1])
       IN /\ parse_log' = Append(parse_log, r.diag)
          /\ flare_events' = IF r.diag = "PARSED OK"
                             THEN Append(flare_events, r.event)
                             ELSE flare_events
    /\ line_num' = line_num + 1
    /\ UNCHANGED <<parse_file, parse_pc>>
    /\ UNCHANGED <<labelVars, combineVars, fluxVars, featVars>>

\* line 98
ParseReturn ==
    /\ parse_pc = "lines"
    /\ line_num = Len(parse_file.lines)
    /\ parse_pc' = "returned"
    /\ UNCHANGED <<parse_file, line_num, flare_events, parse_log>>
    /\ UNCHANGED <<labelVars, combineVars, fluxVars, featVars>>

NextParse == ParseNoYear \/ ParseOpen \/ ParseLine \/ ParseReturn

\* ---- main and its loaders

\* the lines a combine run draws its NOAA files from
CombineLines ==
    {GoodLine,
     [GoodLine EXCEPT !.letter = "X", !.mag = 2],
     [GoodLine EXCEPT !.mm = 1, !.letter = "M"],
     [GoodLine EXCEPT !.peak_len = 3]}

\* the rows of the HEK CSV: event_peaktime is a time, empty, or text that
\* pd.to_datetime cannot parse; fl_goescls is a class string or empty
HekRows ==
    {[time |-> "time", ts |-> 0, class |-> [letter |-> "C", mag |-> 1]],
     [time |-> "time", ts |-> 0, class |-> [letter |-> "X", mag |-> 2]],
     [time |-> "time", ts |-> 0, class |-> NoClass],
     [time |-> "empty", ts |-> 0, class |-> [letter |-> "C", mag |-> 1]],
     [time |-> "garbage", ts |-> 0, class |-> [letter |-> "C", mag |-> 1]]}

\* a file is named for a year or not, and is on the skip list or not
FileKinds == [year : {NoYear, 2019}, skipped : BOOLEAN]

\* lines 101: the sorted *.txt files: `lines` are their lines in turn, file
\* i ending after cuts[i] of them
CombineDir(kinds, lines, cuts) ==
    [i \in DOMAIN kinds |->
        [year |-> kinds[i].year, skipped |-> kinds[i].skipped,
         lines |-> SubSeq(lines, (IF i = 1 THEN 0 ELSE cuts[i - 1]) + 1, cuts[i])]]

HekFiles(k) ==
    {[exists |-> FALSE, has_columns |-> FALSE, rows |-> <<>>],
     [exists |-> TRUE, has_columns |-> FALSE, rows |-> <<>>]}
    \cup [exists : {TRUE}, has_columns : {TRUE}, rows : SeqsUpTo(HekRows, k)]

\* one row for each timestamp, the first kept
drop_duplicates_by_time(rows) ==
    DropDuplicatesBy(rows, [i \in DOMAIN rows |-> <<rows[i].ts_ok, rows[i].ts>>])

\* DataFrame.drop_duplicates(): whole rows, the first of each kept
drop_duplicates(rows) == DropDuplicatesBy(rows, rows)

\* DataFrame.sort_values("datetime"): ascending, NaT last
sort_values(rows) ==
    LET top == IF \E i \in DOMAIN rows : rows[i].ts_ok
               THEN 1 + (CHOOSE m \in {rows[i].ts : i \in {j \in DOMAIN rows : rows[j].ts_ok}} :
                            \A i \in DOMAIN rows : rows[i].ts_ok => rows[i].ts <= m)
               ELSE 0
    IN StableSortBy(rows, [i \in DOMAIN rows |->
                              IF rows[i].ts_ok THEN rows[i].ts ELSE top])

\* lines 100-123; raised: the ValueError of line 122
load_noaa_all(dir) ==
    IF dir = <<>> THEN [raised |-> FALSE, rows |-> <<>>]
    ELSE LET read == SelectSeq(dir, LAMBDA f : ~f.skipped)
             parsed == [i \in DOMAIN read |-> parse_standard_noaa_txt(read[i])]
             dfs == SelectSeq(parsed, LAMBDA df : df # <<>>)
         IN IF dfs = <<>> THEN [raised |-> TRUE, rows |-> <<>>]
            ELSE [raised |-> FALSE,
                  rows |-> sort_values(drop_duplicates(Concat(dfs)))]

\* lines 125-137; raised: pd.to_datetime on text that is no time
load_hek_csv(hek) ==
    IF ~hek.exists \/ ~hek.has_columns THEN [raised |-> FALSE, rows |-> <<>>]
    ELSE IF \E i \in DOMAIN hek.rows : hek.rows[i].time = "garbage"
    THEN [raised |-> TRUE, rows |-> <<>>]
    ELSE [raised |-> FALSE,
          rows |-> [i \in DOMAIN hek.rows |->
                       [ts_ok |-> hek.rows[i].time = "time",
                        ts |-> hek.rows[i].ts,
                        class |-> hek.rows[i].class]]]

\* lines 157-158
combine(noaa_df, hek_df) == sort_values(drop_duplicates(noaa_df \o hek_df))

NotWritten == [written |-> FALSE, rows |-> <<>>]

IdleCombine ==
    /\ noaa_dir = <<>>
    /\ hek_file = [exists |-> FALSE, has_columns |-> FALSE, rows |-> <<>>]
    /\ combined_out = NotWritten
    /\ main_pc = "idle"

StartCombine ==
    /\ \E k \in 0..MaxReports : \E lines \in [1..k -> CombineLines] :
          \E n \in 0..MaxNoaaFiles : \E cuts \in [1..n -> 0..k] :
              \E kinds \in [1..n -> FileKinds] :
                  /\ n = 0 => k = 0
                  /\ n > 0 => cuts[n] = k
                  /\ \A i \in 2..n : cuts[i - 1] <= cuts[i]
                  /\ noaa_dir = CombineDir(kinds, lines, cuts)
                  /\ hek_file \in HekFiles(MaxReports - k)
    /\ combined_out = NotWritten
    /\ main_pc = "start"

\* lines 139-162: main, from its call to its return or to the exception
\* that leaves it
Main ==
    /\ main_pc = "start"
    /\ LET noaa == load_noaa_all(noaa_dir)
           noaa_df == IF noaa.raised THEN <<>> ELSE noaa.rows
           hek == load_hek_csv(hek_file)
       IN IF hek.raised
          THEN /\ main_pc' = "raised"
               /\ UNCHANGED combined_out
          ELSE IF noaa_df = <<>> /\ hek.rows = <<>>
          THEN /\ main_pc' = "returned"
               /\ UNCHANGED combined_out
          ELSE /\ combined_out' = [written |-> TRUE,
                                   rows |-> combine(noaa_df, hek.rows)]
               /\ main_pc' = "returned"
    /\ UNCHANGED <<noaa_dir, hek_file>>
    /\ UNCHANGED <<labelVars, parseVars, fluxVars, featVars>>

NextCombine == Main

-----------------------------------------------------------------------------
(* process_flux_data.py                                                    *)
(* A sample is a time ts in seconds and a flux in units of 1e-9 W/m^2.     *)
(* RAW_DIR holds n files, file 1 the first in sorted order; data maps the  *)
(* files that hold samples to them, and every other file is one for which  *)
(* process_single_netcdf returns None (no xrsb_flux, no values, an error). *)
(* A chunk of TEMP_DIR is absent, half written or written.                 *)

BATCH_SIZE == 25
MAX_WORKERS == 3

NumFiles == 275   \* files of the large directory
MaxRuns == 3      \* runs of the script on one directory

SecondsPerMinute == 60

ChunkIds == 0..((NumFiles - 1) \div BATCH_SIZE)

NoChunk == [st |-> "absent", rows |-> <<>>]

NoOutput == [st |-> "absent", rows |-> <<>>]

NoResult == [set |-> FALSE, chunks |-> <<>>, out |-> NoOutput]

\* the i-th sample of file k, taken at time ts: no two samples of the
\* directory report the same flux, and FileOf tells the file of a sample
SampleOf(k, i, ts) == [ts |-> ts, flux |-> 10 * k + i - 1]

FileOf(sample) == sample.flux \div 10

FrameOf(k, stamps) == [i \in DOMAIN stamps |-> SampleOf(k, i, stamps[i])]

\* a small directory: two files of the first batch and the first of the next
SmallDirs ==
    {[n |-> BATCH_SIZE + 1,
      data |-> (1 :> FrameOf(1, a) @@ 2 :> FrameOf(2, b)
                  @@ (BATCH_SIZE + 1) :> FrameOf(BATCH_SIZE + 1, c))] :
        a \in {<<>>, <<0>>, <<0, 30>>, <<0, 240>>, <<0, 3060>>, <<0, 0>>},
        b \in {<<>>, <<0>>, <<30>>},
        c \in {<<>>, <<0>>, <<60>>}}

\* a large directory: the first file of the third and of the eleventh batch
LargeDirs ==
    {[n |-> NumFiles,
      data |-> ((2 * BATCH_SIZE + 1) :> FrameOf(2 * BATCH_SIZE + 1, a)
                  @@ (10 * BATCH_SIZE + 1) :> FrameOf(10 * BATCH_SIZE + 1, b))] :
        a \in {<<>>, <<0>>}, b \in {<<>>, <<0>>}}

RawDirs == {[n |-> 0, data |-> <<>>]} \cup SmallDirs \cup LargeDirs

\* TEMP_DIR before the first run: empty, or with the chunk_1 of an earlier
\* run over other files
TempDirs ==
    {[i \in ChunkIds |-> NoChunk],
     [i \in ChunkIds |->
        IF i = 1 THEN [st |-> "written", rows |-> <<[ts |-> 0, flux |-> 0]>>]
        ELSE NoChunk]}

\* lines 43, 68, 109: ~index.duplicated(): the first row of each time
drop_duplicated_index(rows) ==
    DropDuplicatesBy(rows, [i \in DOMAIN rows |-> rows[i].ts])

\* lines 19-52: the frame of file k; <<>> for None
process_single_netcdf(dir, k) ==
    IF k \in DOMAIN dir.data THEN drop_duplicated_index(dir.data[k]) ELSE <<>>

\* line 77
total_batches(n) == (n + BATCH_SIZE - 1) \div BATCH_SIZE

\* line 82 with the slice one file too long
batch_files_overlapping(n, i) ==
    LET lo == i * BATCH_SIZE + 1
        hi == IF (i + 1) * BATCH_SIZE + 1 < n THEN (i + 1) * BATCH_SIZE + 1 ELSE n
    IN [j \in 1..(hi - lo + 1) |-> lo + j - 1]

\* line 82: all_files[i * BATCH_SIZE : (i + 1) * BATCH_SIZE], as file numbers
batch_files(n, i) ==
    LET lo == i * BATCH_SIZE + 1
        hi == IF (i + 1) * BATCH_SIZE < n THEN (i + 1) * BATCH_SIZE ELSE n
    IN [j \in 1..(hi - lo + 1) |-> lo + j - 1]

\* lines 60-68: chunk_df of a batch; <<>> when no file gave a frame
batch_frame(dir, files) ==
    drop_duplicated_index(
        Concat([j \in DOMAIN files |-> process_single_netcdf(dir, files[j])]))

\* the chunk file opened with what it held kept
open_chunk_for_append(old) == [st |-> "partial", rows |-> old.rows]

\* line 70: to_parquet opens the chunk file, which empties it
open_chunk(old) == [st |-> "partial", rows |-> <<>>]

\* line 70: to_parquet writes the frame to the open file and closes it
write_chunk(old, chunk_df) == [st |-> "written", rows |-> old.rows \o chunk_df]

\* the decimal digits of i, as in f"chunk_{batch_idx}.parquet"
RECURSIVE Digits(_)
Digits(i) == IF i < 10 THEN <<i>> ELSE Append(Digits(i \div 10), i % 10)

\* "chunk_<a>.parquet" < "chunk_<b>.parquet" as strings ("." sorts before
\* every digit)
NameLess(a, b) ==
    LET da == Digits(a)
        db == Digits(b)
        common == {k \in DOMAIN da \cap DOMAIN db : \A j \in 1..k : da[j] = db[j]}
        p == Cardinality(common) + 1
    IN IF p > Len(da) THEN p <= Len(db)
       ELSE IF p > Len(db) THEN FALSE
       ELSE da[p] < db[p]

\* line 99: sorted(glob(TEMP_DIR/*.parquet)), as chunk numbers
all_chunks(chunks) ==
    LET have == {i \in DOMAIN chunks : chunks[i].st # "absent"}
        rank(i) == Cardinality({j \in have : NameLess(j, i)})
    IN [k \in 1..Cardinality(have) |-> CHOOSE i \in have : rank(i) = k - 1]

\* lines 106-110: concat, first of each time, sort_index
merge_chunks(chunks) ==
    LET names == all_chunks(chunks)
        flux_df == drop_duplicated_index(
                       Concat([k \in DOMAIN names |-> chunks[names[k]].rows]))
    IN StableSortBy(flux_df, [i \in DOMAIN flux_df |-> flux_df[i].ts])

RECURSIVE Gcd(_, _)
Gcd(a, b) == IF b = 0 THEN a ELSE Gcd(b, a % b)

\* the mean of a tick as a fraction in lowest terms
Mean(total, count) ==
    LET g == Gcd(total, count)
    IN IF total = 0 THEN <<0, 1>> ELSE <<total \div g, count \div g>>

RECURSIVE SumFlux(_)
SumFlux(rows) == IF rows = <<>> THEN 0 ELSE Head(rows).flux + SumFlux(Tail(rows))

\* line 114: resample("1min").mean(): a row for every minute from the first
\* sample's to the last's, NaN (nan = TRUE) for a minute without samples
resample_mean(df) ==
    IF df = <<>> THEN <<>>
    ELSE LET first == df[1].ts \div SecondsPerMinute
             last == df[Len(df)].ts \div SecondsPerMinute
         IN [k \in 1..(last - first + 1) |->
                LET tick == first + k - 1
                    in_tick == SelectSeq(df,
                                  LAMBDA r : r.ts \div SecondsPerMinute = tick)
                IN IF in_tick = <<>>
                   THEN [tick |-> tick, nan |-> TRUE, flux |-> <<0, 1>>]
                   ELSE [tick |-> tick, nan |-> FALSE,
                         flux |-> Mean(SumFlux(in_tick), Len(in_tick))]]

\* line 115: log10(flux.clip(lower=1e-9)); log10 of the fraction f is kept
\* as f itself
flux_log(row) ==
    [tick |-> row.tick, nan |-> row.nan,
     flux_log |-> IF row.flux[1] < row.flux[2] THEN <<1, 1>> ELSE row.flux]

\* line 116: dropna()
dropna(rows) == SelectSeq(rows, LAMBDA r : ~r.nan)

\* lines 112-116
transform(df) ==
    LET resampled == resample_mean(df)
    IN dropna([k \in DOMAIN resampled |-> flux_log(resampled[k])])

IdleFlux ==
    /\ RAW_DIR = [n |-> 0, data |-> <<>>]
    /\ tmp_chunks = [i \in ChunkIds |-> NoChunk]
    /\ tasks = <<>>
    /\ merged_df = <<>>
    /\ flux_out = NoOutput
    /\ flux_pc = "idle"
    /\ run_no = 0
    /\ tmp_before = tmp_chunks
    /\ first_result = NoResult

StartFlux ==
    /\ RAW_DIR \in RawDirs
    /\ tmp_chunks \in TempDirs
    /\ tasks = <<>>
    /\ merged_df = <<>>
    /\ flux_out = NoOutput
    /\ flux_pc = "scan"
    /\ run_no = 1
    /\ tmp_before = tmp_chunks
    /\ first_result = NoResult

\* what a finished run leaves, kept from the first run that finishes
Finished(chunks, out) ==
    IF first_result.set THEN first_result
    ELSE [set |-> TRUE, chunks |-> chunks, out |-> out]

\* lines 123-131: main scans RAW_DIR and returns when it holds no file
ScanFiles ==
    /\ flux_pc = "scan"
    /\ IF RAW_DIR.n = 0
       THEN /\ flux_pc' = "returned"
            /\ first_result' = Finished(tmp_chunks, flux_out)
       ELSE /\ flux_pc' = "submit"
            /\ UNCHANGED first_result
    /\ UNCHANGED <<RAW_DIR, tmp_chunks, tasks, merged_df, flux_out, run_no,
                   tmp_before>>
    /\ UNCHANGED <<labelVars, parseVars, combineVars, featVars>>

\* lines 80-84: the futures list: process_batch(batch, i) for every i with a
\* batch that is not empty
submit_batches(n) ==
    SelectSeq([k \in 1..total_batches(n) |->
                  [batch |-> batch_files(n, k - 1), batch_idx |-> k - 1,
                   st |-> "queued"]],
              LAMBDA t : t.batch # <<>>)

\* lines 77-84: a future for every batch, queued in the order of the batches
SubmitBatches ==
    /\ flux_pc = "submit"
    /\ tasks' = submit_batches(RAW_DIR.n)
    /\ flux_pc' = "wait"
    /\ UNCHANGED <<RAW_DIR, tmp_chunks, merged_df, flux_out, run_no,
                   tmp_before, first_result>>
    /\ UNCHANGED <<labelVars, parseVars, combineVars, featVars>>

Busy == {k \in DOMAIN tasks : tasks[k].st \in {"running", "writing"}}

\* ThreadPoolExecutor(max_workers=MAX_WORKERS): a worker thread is free
free_worker(busy) == Cardinality(busy) < MAX_WORKERS

\* ThreadPoolExecutor(max_workers=MAX_WORKERS): a free worker takes the
\* oldest queued future
StartTask(k) ==
    /\ flux_pc = "wait"
    /\ tasks[k].st = "queued"
    /\ \A j \in DOMAIN tasks : j < k => tasks[j].st # "queued"
    /\ free_worker(Busy)
    /\ tasks' = [tasks EXCEPT ![k].st = "running"]
    /\ UNCHANGED <<RAW_DIR, tmp_chunks, merged_df, flux_out, flux_pc, run_no,
                   tmp_before, first_result>>
    /\ UNCHANGED <<labelVars, parseVars, combineVars, featVars>>

\* lines 60-70: process_batch reads its files; with a frame it starts to
\* write chunk_<batch_idx>, without one it is done
ReadBatch(k) ==
    /\ flux_pc = "wait"
    /\ tasks[k].st = "running"
    /\ IF batch_frame(RAW_DIR, tasks[k].batch) = <<>>
       THEN /\ tasks' = [tasks EXCEPT ![k].st = "done"]
            /\ UNCHANGED tmp_chunks
       ELSE /\ tasks' = [tasks EXCEPT ![k].st = "writing"]
            /\ tmp_chunks' = [tmp_chunks EXCEPT ![tasks[k].batch_idx] =
                                open_chunk(@)]
    /\ UNCHANGED <<RAW_DIR, merged_df, flux_out, flux_pc, run_no,
                   tmp_before, first_result>>
    /\ UNCHANGED <<labelVars, parseVars, combineVars, featVars>>

\* line 70: to_parquet has written chunk_<batch_idx>
WriteChunk(k) ==
    /\ flux_pc = "wait"
    /\ tasks[k].st = "writing"
    /\ tmp_chunks' = [tmp_chunks EXCEPT ![tasks[k].batch_idx] =
                        write_chunk(@, batch_frame(RAW_DIR, tasks[k].batch))]
    /\ tasks' = [tasks EXCEPT ![k].st = "done"]
    /\ UNCHANGED <<RAW_DIR, merged_df, flux_out, flux_pc, run_no,
                   tmp_before, first_result>>
    /\ UNCHANGED <<labelVars, parseVars, combineVars, featVars>>

\* line 70: to_parquet raises while it writes (the disk is full): the future
\* holds the exception and the chunk file stays half written
FailWrite(k) ==
    /\ flux_pc = "wait"
    /\ tasks[k].st = "writing"
    /\ tasks' = [tasks EXCEPT ![k].st = "failed"]
    /\ UNCHANGED <<RAW_DIR, tmp_chunks, merged_df, flux_out, flux_pc, run_no,
                   tmp_before, first_result>>
    /\ UNCHANGED <<labelVars, parseVars, combineVars, featVars>>

\* waiting until some future has finished
first_completed(futures) ==
    \E k \in DOMAIN futures : futures[k].st \in {"done", "failed"}

\* lines 87-90 and the end of the with block of line 79: as_completed has
\* yielded every future, finished with a result or with an exception
as_completed(futures) ==
    \A k \in DOMAIN futures : futures[k].st \in {"done", "failed"}

\* lines 86-90 and 93-116: every future is done, the pool is shut down and
\* merge_and_transform_chunks reads the chunks; line 119 opens OUTPUT_PATH
Merge ==
    /\ flux_pc = "wait"
    /\ as_completed(tasks)
    /\ IF \A i \in DOMAIN tmp_chunks : tmp_chunks[i].st = "absent"
       THEN /\ flux_pc' = "returned"
            /\ first_result' = Finished(tmp_chunks, flux_out)
            /\ UNCHANGED <<merged_df, flux_out>>
       ELSE IF \E i \in DOMAIN tmp_chunks : tmp_chunks[i].st = "partial"
       THEN /\ flux_pc' = "raised"
            /\ UNCHANGED <<merged_df, flux_out, first_result>>
       ELSE /\ merged_df' = merge_chunks(tmp_chunks)
            /\ flux_out' = [st |-> "partial", rows |-> <<>>]
            /\ flux_pc' = "save"
            /\ UNCHANGED first_result
    /\ UNCHANGED <<RAW_DIR, tmp_chunks, tasks, run_no, tmp_before>>
    /\ UNCHANGED <<labelVars, parseVars, combineVars, featVars>>

\* lines 112-120: to_parquet has written the transformed series
SaveOutput ==
    /\ flux_pc = "save"
    /\ flux_out' = [st |-> "written", rows |-> transform(merged_df)]
    /\ first_result' = Finished(tmp_chunks, flux_out')
    /\ flux_pc' = "returned"
    /\ UNCHANGED <<RAW_DIR, tmp_chunks, tasks, merged_df, run_no, tmp_before>>
    /\ UNCHANGED <<labelVars, parseVars, combineVars, featVars>>

\* the run is killed: what is on disk stays as it is
Abort ==
    /\ flux_pc \in {"scan", "submit", "wait", "save"}
    /\ flux_pc' = "aborted"
    /\ UNCHANGED <<RAW_DIR, tmp_chunks, tasks, merged_df, flux_out, run_no,
                   tmp_before, first_result>>
    /\ UNCHANGED <<labelVars, parseVars, combineVars, featVars>>

\* the script is run again on the same RAW_DIR
Rerun ==
    /\ flux_pc \in {"returned", "aborted", "raised"}
    /\ run_no < MaxRuns
    /\ run_no' = run_no + 1
    /\ tasks' = <<>>
    /\ merged_df' = <<>>
    /\ flux_pc' = "scan"
    /\ UNCHANGED <<RAW_DIR, tmp_chunks, flux_out, tmp_before, first_result>>
    /\ UNCHANGED <<labelVars, parseVars, combineVars, featVars>>

NextFlux ==
    \/ ScanFiles
    \/ SubmitBatches
    \/ \E k \in DOMAIN tasks : StartTask(k)
    \/ \E k \in DOMAIN tasks : ReadBatch(k)
    \/ \E k \in DOMAIN tasks : WriteChunk(k)
    \/ \E k \in DOMAIN tasks : FailWrite(k)
    \/ Merge
    \/ SaveOutput
    \/ Abort
    \/ Rerun

-----------------------------------------------------------------------------
(* create_features_labels.py: create_features                              *)
(* The frame has a row per minute kept by the flux pipeline; row i is the  *)
(* i-th row, and rolling(win) counts rows.  A number is a fraction in      *)
(* lowest terms or NaN.  The calendar columns (hour, dayofweek, dayofyear, *)
(* month, year) and the label always hold a value and are left out.        *)

windows == <<5, 15, 30, 60, 180, 360, 720>>

MaxShort == 6     \* the longest series whose rows are drawn freely

FluxLogs == {-9, -6}

\* the lengths of the series: short ones, and one row less, as many and one
\* more than each window
SeriesLengths ==
    (0..MaxShort) \cup UNION {{windows[j] - 1, windows[j], windows[j] + 1} :
                                  j \in DOMAIN windows}

NaN == [nan |-> TRUE, num |-> 0, den |-> 1]

Abs(x) == IF x < 0 THEN -x ELSE x

\* the fraction num / den (den > 0) in lowest terms
Frac(num, den) ==
    LET g == Gcd(Abs(num), den)
    IN [nan |-> FALSE, num |-> num \div g, den |-> den \div g]

\* line 121: df[col].diff()
diff(col, i) == IF i = 1 THEN NaN ELSE Frac(col[i] - col[i - 1], 1)

\* the sum, the sum of squares, the least and the greatest of col[lo..hi]
RECURSIVE WindowStats(_, _, _)
WindowStats(col, lo, hi) ==
    IF lo = hi
    THEN [sum |-> col[lo], sq |-> col[lo] * col[lo], min |-> col[lo],
          max |-> col[lo]]
    ELSE LET mid == (lo + hi) \div 2
             a == WindowStats(col, lo, mid)
             b == WindowStats(col, mid + 1, hi)
         IN [sum |-> a.sum + b.sum, sq |-> a.sq + b.sq,
             min |-> IF b.min < a.min THEN b.min ELSE a.min,
             max |-> IF b.max > a.max THEN b.max ELSE a.max]

\* the first row of the window of row i
WindowStart(i, win) == IF i - win + 1 < 1 THEN 1 ELSE i - win + 1

\* the least number of rows of a window that has a value: the full window
full_window(win) == win

\* lines 127-130: min_periods=1
min_periods(win) == 1

\* lines 127-130: rolling(win, min_periods=1) at row i: the mean, the std
\* (kept as its square, the sample variance; NaN for a single row), the min
\* and the max of the rows of the window
rolling(col, i, win) ==
    LET lo == WindowStart(i, win)
        n == i - lo + 1
        w == WindowStats(col, lo, i)
    IN IF n < min_periods(win)
       THEN [mean |-> NaN, std |-> NaN, min |-> NaN, max |-> NaN]
       ELSE [mean |-> Frac(w.sum, n),
             std |-> IF n < 2 THEN NaN
                     ELSE Frac(n * w.sq - w.sum * w.sum, n * (n - 1)),
             min |-> Frac(w.min, 1),
             max |-> Frac(w.max, 1)]

\* lines 119-137: the row of the frame before dropna
feature_row(col, i) ==
    [row |-> i,
     flux_log |-> Frac(col[i], 1),
     flux_delta |-> diff(col, i),
     roll |-> [j \in DOMAIN windows |-> rolling(col, i, windows[j])]]

\* line 142: a row with a NaN in any column
has_nan(r) ==
    \/ r.flux_log.nan
    \/ r.flux_delta.nan
    \/ \E j \in DOMAIN r.roll :
          r.roll[j].mean.nan \/ r.roll[j].std.nan \/ r.roll[j].min.nan
             \/ r.roll[j].max.nan

\* lines 118-144
create_features(col) ==
    SelectSeq([i \in DOMAIN col |-> feature_row(col, i)],
              LAMBDA r : ~has_nan(r))

IdleFeatures ==
    /\ feat_df = <<>>
    /\ final_df = <<>>
    /\ feat_pc = "idle"

\* a series of n rows, the first cut of them at v and the others at w; the
\* long series are constant
StartFeatures ==
    /\ \E n \in SeriesLengths : \E v \in FluxLogs : \E w \in FluxLogs :
          \E cut \in 0..n :
             /\ n > MaxShort => cut = n /\ w = v
             /\ feat_df = [i \in 1..n |-> IF i <= cut THEN v ELSE w]
    /\ final_df = <<>>
    /\ feat_pc = "features"

\* line 147: final_df = create_features(flux_df.copy())
CreateFeatures ==
    /\ feat_pc = "features"
    /\ final_df' = create_features(feat_df)
    /\ feat_pc' = "done"
    /\ UNCHANGED feat_df
    /\ UNCHANGED <<labelVars, parseVars, combineVars, fluxVars>>

NextFeatures == CreateFeatures

-----------------------------------------------------------------------------
(* The specifications: one script is run.                                  *)

InitLabel == StartLabel /\ IdleParse /\ IdleCombine /\ IdleFlux /\ IdleFeatures

SpecLabel == InitLabel /\ [][NextLabel]_vars

InitParse == IdleLabel /\ StartParse /\ IdleCombine /\ IdleFlux /\ IdleFeatures

SpecParse == InitParse /\ [][NextParse]_vars

InitCombine == IdleLabel /\ IdleParse /\ StartCombine /\ IdleFlux /\ IdleFeatures

SpecCombine == InitCombine /\ [][NextCombine]_vars

InitFlux == IdleLabel /\ IdleParse /\ IdleCombine /\ StartFlux /\ IdleFeatures

SpecFlux == InitFlux /\ [][NextFlux]_vars

InitFeatures ==
    IdleLabel /\ IdleParse /\ IdleCombine /\ IdleFlux /\ StartFeatures

SpecFeatures == InitFeatures /\ [][NextFeatures]_vars

\* either catalogue parser is run
InitParsers == InitLabel \/ InitParse

NextParsers == NextParse \/ LoadFlareCatalogue \/ AssignLabels

SpecParsers == InitParsers /\ [][NextParsers]_vars

-----------------------------------------------------------------------------
(* Properties of the labels.                                               *)

\* IntensityRank: A = B = 1 < C = 2 < M = 3 < X = 4; no event ranks below all
IntensityRank(c) ==
    CASE c = "X" -> 4
      [] c = "M" -> 3
      [] c = "C" -> 2
      [] c \in {"A", "B"} -> 1
      [] OTHER -> 0

InHorizon(t, e) == t < e /\ e <= t + window

\* the events assign_labels_to_flux was handed that lie in the horizon of t
EventsInHorizon(t) == {r \in Range(flare_df.rows) : InHorizon(t, r.ts)}

\* C1: the label of every flux timestamp t is the strongest class among
\* exactly the events e handed to assign_labels_to_flux with
\* t < e <= t + horizon ("No Flare" when there is none): an event at t, before
\* t or after t + horizon never counts, one at t + horizon does.
C1_LabelIsStrongestInHorizon ==
    label_pc = "labelled" =>
        \A i \in DOMAIN flux_index :
            LET inwin == EventsInHorizon(flux_index[i])
            IN IF inwin = {}
               THEN labels[i] = NoFlare
               ELSE /\ labels[i] \in {r.class : r \in inwin}
                    /\ \A r \in inwin :
                          IntensityRank(r.class) <= IntensityRank(labels[i])

\* an X event at exactly t and a C event at exactly t + horizon: the label is C
C1_Witness ==
    /\ label_pc = "labelled"
    /\ \E i \in DOMAIN flux_index :
          /\ \E r \in Range(flare_df.rows) :
                r.ts = flux_index[i] /\ r.class = "X"
          /\ \E r \in Range(flare_df.rows) :
                r.ts = flux_index[i] + window /\ r.class = "C"
          /\ labels[i] = "C"

\* the files of the directory that were read without an exception
ReadFiles ==
    {i \in DOMAIN catalogue_dir :
        /\ catalogue_dir[i] # <<>>
        /\ \A k \in DOMAIN catalogue_dir[i] : catalogue_dir[i][k].stamp_ok}

\* the catalogue events of the classes `cs` in the horizon of t
CatalogueInHorizon(t, cs) ==
    {r \in UNION {Range(catalogue_dir[i]) : i \in ReadFiles} :
        r.class \in cs /\ InHorizon(t, r.ts)}

-----------------------------------------------------------------------------
(* Properties of the catalogue parsers and of the combine run.             *)

\* the acceptance rule of a fixed-width record: day-of-year within the
\* file's year, a peak time of hour 0-23 and minute 0-59, a class letter
AcceptableLine(year, l) ==
    /\ l.ddd_digits /\ l.ddd \in 1..DaysInYear(year)
    /\ l.peak_len = 4 /\ l.hh \in 0..23 /\ l.mm \in 0..59
    /\ l.letter \in ClassLetters

ValidLine(year, l) ==
    /\ l.prefix /\ l.yy_digits /\ l.mag > 0
    /\ AcceptableLine(year, l)

\* C9: parse_standard_noaa_txt emits an event for a line only if the line's
\* day-of-year is in 1..365 (366 in a leap year), its peak time is a valid
\* hour and minute and its class letter is one of A, B, C, M, X.
C9_EventOnlyForAcceptableLine ==
    parse_pc \in {"lines", "returned"} =>
        \A i \in DOMAIN parse_log :
            parse_log[i] = "PARSED OK"
                => AcceptableLine(parse_file.year, parse_file.lines[i])

\* the valid rows of the tokenized catalogue that the loader is to keep
ValidRows(file) ==
    {r \in Range(file) : r.stamp_ok /\ r.class \in {"C", "M", "X"}}

\* C4: both catalogue parsers read a source with malformed records without
\* raising and drop the malformed records only: every valid record of the
\* source has its event in the result.  (Which fixed-width records count as
\* valid is C9's subject; here a valid one must not be lost.)
C4_OnlyMalformedRecordsDropped ==
    /\ (parse_pc = "returned" /\ parse_file.year # NoYear) =>
          /\ Len(parse_log) = Len(parse_file.lines)
          /\ \A i \in DOMAIN parse_file.lines :
                ValidLine(parse_file.year, parse_file.lines[i]) =>
                    /\ parse_log[i] = "PARSED OK"
                    /\ \E e \in Range(flare_events) :
                          e.ts = peak_dt(parse_file.year, parse_file.lines[i])
                          /\ e.class.letter = parse_file.lines[i].letter
    /\ label_pc = "assign" =>
          Range(flare_df.rows)
              = UNION {ValidRows(catalogue_dir[i]) : i \in DOMAIN catalogue_dir}

\* the events of the NOAA files a combine run reads, and of the HEK rows
NoaaReports ==
    UNION {Range(parse_standard_noaa_txt(noaa_dir[i])) :
              i \in {j \in DOMAIN noaa_dir : ~noaa_dir[j].skipped}}

HekReports ==
    IF hek_file.exists /\ hek_file.has_columns
    THEN {[ts_ok |-> r.time = "time", ts |-> r.ts, class |-> r.class] :
              r \in Range(hek_file.rows)}
    ELSE {}

HekUnreadable == \E r \in Range(hek_file.rows) : r.time = "garbage"

SameTimestamp(a, b) == a.ts_ok /\ b.ts_ok /\ a.ts = b.ts

C5_NoDataIsAHardFailure ==
    (main_pc \in {"returned", "raised"} /\ ~HekUnreadable) =>
        /\ (NoaaReports = {} /\ HekReports = {})
              => (main_pc = "raised" /\ ~combined_out.written)
        /\ ((NoaaReports = {}) # (HekReports = {}))
              => (main_pc = "returned" /\ combined_out.written)

\* C10: every event of the combined catalogue has a defined timestamp and a
\* class whose first letter is one of A, B, C, M, X.
C10_EventsHaveTimeAndClass ==
    combined_out.written =>
        \A i \in DOMAIN combined_out.rows :
            /\ combined_out.rows[i].ts_ok
            /\ combined_out.rows[i].class.letter \in ClassLetters

-----------------------------------------------------------------------------
(* process_flux_data.py: the merged series                                 *)

\* the files of RAW_DIR with a sample at time ts
FilesWith(ts) ==
    {k \in DOMAIN RAW_DIR.data :
        \E j \in DOMAIN RAW_DIR.data[k] : RAW_DIR.data[k][j].ts = ts}

FirstFile(ts) == CHOOSE k \in FilesWith(ts) : \A m \in FilesWith(ts) : k <= m

EmptyTempDir == \A i \in DOMAIN tmp_before : tmp_before[i].st = "absent"

\* C6: when a timestamp occurs in several raw files, the sample of the merged
\* series at that timestamp is the one of the file that is first in sorted
\* filename order, whether the files share a batch or not and however many
\* files and batches there are (TEMP_DIR empty before the run).
C6_FirstFileInSortedOrderWins ==
    EmptyTempDir =>
        \A i \in DOMAIN merged_df :
            FileOf(merged_df[i]) = FirstFile(merged_df[i].ts)

\* the chunks and the output of a run that takes the batches one by one
SequentialChunks ==
    [i \in ChunkIds |->
        IF i < total_batches(RAW_DIR.n)
           /\ batch_frame(RAW_DIR, batch_files(RAW_DIR.n, i)) # <<>>
        THEN [st |-> "written",
              rows |-> batch_frame(RAW_DIR, batch_files(RAW_DIR.n, i))]
        ELSE tmp_before[i]]

SequentialOutput ==
    IF RAW_DIR.n = 0 \/ \A i \in ChunkIds : SequentialChunks[i].st = "absent"
    THEN NoOutput
    ELSE [st |-> "written", rows |-> transform(merge_chunks(SequentialChunks))]

\* C7: a run of the pipeline that finishes, on the same raw files as the runs
\* before it, some of them aborted at any point, leaves the chunks and the
\* output that the first finished run left, and these are the chunks and the
\* output of taking the batches one by one: no scheduling or completion
\* order of the worker threads changes them.
C7_RerunRegeneratesSameArtifacts ==
    flux_pc = "returned" =>
        /\ first_result.set
        /\ tmp_chunks = first_result.chunks
        /\ flux_out = first_result.out
        /\ tmp_chunks = SequentialChunks
        /\ flux_out = SequentialOutput

C7_Witness ==
    /\ flux_pc = "returned"
    /\ run_no = MaxRuns
    /\ flux_out.st = "written"
    /\ Cardinality({i \in ChunkIds : tmp_chunks[i].st = "written"}) > 1
    /\ \E i \in ChunkIds : Len(tmp_chunks[i].rows) > 1

\* the grid ticks with a measurement, and those with a row of the output
MeasuredTicks == {merged_df[i].ts \div SecondsPerMinute : i \in DOMAIN merged_df}

OutputTicks == {flux_out.rows[i].tick : i \in DOMAIN flux_out.rows}

\* ticks a < b are measured and no tick between them is
IsGap(a, b) ==
    /\ a \in MeasuredTicks
    /\ b \in MeasuredTicks
    /\ a < b
    /\ \A t \in (a + 1)..(b - 1) : t \notin MeasuredTicks

\* C8: in the normalized series a run of 3 missing ticks between two
\* measured ticks has a value at each of its ticks, so the grid is
\* contiguous across it, and a run of 50 missing ticks has a tick without a
\* value.
C8_ShortGapFilledLongGapLeft ==
    (flux_pc = "returned" /\ flux_out.st = "written" /\ merged_df # <<>>) =>
        \A a \in MeasuredTicks : \A b \in MeasuredTicks :
            IsGap(a, b) =>
                /\ (b - a - 1 = 3 => \A t \in a..b : t \in OutputTicks)
                /\ (b - a - 1 = 50 => \E t \in a..b : t \notin OutputTicks)

-----------------------------------------------------------------------------
(* create_features_labels.py: the rolling mean of a constant series        *)

ConstantSeries ==
    /\ feat_df # <<>>
    /\ \A i \in DOMAIN feat_df : feat_df[i] = feat_df[1]

\* the rows of the output made from row i of the series
OutputRows(i) == {k \in DOMAIN final_df : final_df[k].row = i}

\* C11: for a series constant at v and every window W, roll_mean_W is v at
\* every row with a full window of W samples, and a row whose window holds
\* fewer than W samples is dropped from the output or has no roll_mean_W.
C11_MeanUndefinedOnIncompleteWindow ==
    (feat_pc = "done" /\ ConstantSeries) =>
        \A j \in DOMAIN windows : \A i \in DOMAIN feat_df :
            IF i >= windows[j]
            THEN \E k \in OutputRows(i) :
                    final_df[k].roll[j].mean = Frac(feat_df[1], 1)
            ELSE \A k \in OutputRows(i) : final_df[k].roll[j].mean.nan

\* C11 (amended): for a series constant at v and every window W, roll_mean_W
\* is v at every row of the output, whether its window is full or holds
\* fewer than W samples (min_periods=1), and the output has every row of the
\* series but the first one, in order.
C11_MeanOfConstantSeriesIsV ==
    (feat_pc = "done" /\ ConstantSeries) =>
        /\ Len(final_df) = Len(feat_df) - 1
        /\ \A k \in DOMAIN final_df :
              /\ final_df[k].row = k + 1
              /\ \A j \in DOMAIN windows :
                    final_df[k].roll[j].mean = Frac(feat_df[1], 1)

C11_Witness ==
    /\ feat_pc = "done"
    /\ ConstantSeries
    /\ Len(feat_df) = windows[1] + 1
    /\ Len(final_df) = windows[1]
    /\ final_df[1].row = 2
    /\ final_df[1].roll[1].mean = Frac(feat_df[1], 1)

-----------------------------------------------------------------------------
(* process_flux_data.py: the batches and the worker tasks                  *)

\* the tasks whose batch holds file f
TasksOfFile(f) == {k \in DOMAIN tasks : f \in Range(tasks[k].batch)}

\* the tasks that write chunk_<i>
TasksOfChunk(i) == {k \in DOMAIN tasks : tasks[k].batch_idx = i}

\* the tasks that take a step
Stepping == {k \in DOMAIN tasks : k \in DOMAIN tasks' /\ tasks'[k] # tasks[k]}

\* the futures as parallel_batches has submitted them
JustSubmitted ==
    tasks # <<>> /\ \A k \in DOMAIN tasks : tasks[k].st = "queued"

BatchesDisjoint ==
    /\ JustSubmitted =>
          /\ \A f \in 1..RAW_DIR.n : Cardinality(TasksOfFile(f)) = 1
          /\ \A k \in DOMAIN tasks : Range(tasks[k].batch) \subseteq 1..RAW_DIR.n
    /\ \A i \in ChunkIds : Cardinality(TasksOfChunk(i)) <= 1
    /\ Cardinality(Busy) <= MAX_WORKERS

\* a task keeps its batch and its index; a step that changes chunk_<i> is
\* the step of one task whose index is i; and a task that has finished is
\* not run again in its run
OwnChunkOnly ==
    /\ \A k \in DOMAIN tasks :
          tasks' # <<>> =>
              /\ tasks'[k].batch = tasks[k].batch
              /\ tasks'[k].batch_idx = tasks[k].batch_idx
              /\ tasks[k].st \in {"done", "failed"} => tasks'[k] = tasks[k]
    /\ \A i \in ChunkIds :
          tmp_chunks'[i] # tmp_chunks[i] =>
              /\ Cardinality(Stepping) = 1
              /\ \A k \in Stepping : tasks[k].batch_idx = i

\* C12: every raw file is in the batch of exactly one task, no two tasks of
\* a run have the same chunk index, at most MAX_WORKERS tasks run at a time,
\* and in every interleaving a chunk is changed only by the one task whose
\* index it carries, each task being run once.
C12_DisjointBatchesOwnChunks == []BatchesDisjoint /\ [][OwnChunkOnly]_vars

C12_Witness ==
    /\ Cardinality(Busy) = MAX_WORKERS
    /\ Cardinality({k \in DOMAIN tasks : tasks[k].st = "writing"}) > 1
    /\ \E k \in DOMAIN tasks : tasks[k].st = "done"

-----------------------------------------------------------------------------
(* process_flux_data.py: the merge waits for the tasks                     *)

Unfinished ==
    {k \in DOMAIN tasks : tasks[k].st \in {"queued", "running", "writing"}}

\* the tasks that have written their chunk
Completed ==
    {k \in DOMAIN tasks :
        tasks[k].st = "done" /\ batch_frame(RAW_DIR, tasks[k].batch) # <<>>}

\* the merge has read the chunks, or is past reading them, only with every
\* task finished; a run aborted with a task unfinished has its completed
\* chunks on disk, and the first run no output
MergeAfterTasks ==
    /\ (flux_pc \in {"save", "raised"} \/ merged_df # <<>>) => Unfinished = {}
    /\ (flux_pc = "aborted" /\ Unfinished # {}) =>
          /\ run_no = 1 => flux_out = NoOutput
          /\ \A k \in Completed :
                tmp_chunks[tasks[k].batch_idx] =
                    [st |-> "written",
                     rows |-> batch_frame(RAW_DIR, tasks[k].batch)]

\* while a task is unfinished no step reads the chunks or writes the output
NoMergeWhileUnfinished ==
    Unfinished # {} => (merged_df' = merged_df /\ flux_out' = flux_out)

\* C13: the merge reads the chunks only after every submitted task has
\* finished, with a result or with an exception, so never a chunk that a
\* worker is still writing; and a run aborted before all tasks have finished
\* writes no output and leaves the chunks already completed on disk.
C13_MergeOnlyAfterAllTasks ==
    []MergeAfterTasks /\ [][NoMergeWhileUnfinished]_vars

C13_Witness ==
    /\ flux_pc = "aborted"
    /\ run_no = 1
    /\ \E k \in DOMAIN tasks : tasks[k].st = "writing"
    /\ \E k \in Completed : tmp_chunks[tasks[k].batch_idx].st = "written"
    /\ flux_out = NoOutput

-----------------------------------------------------------------------------
(* process_flux_data.py: chunks of an earlier run                          *)

\* the samples of the raw files of the run
RawSamples ==
    UNION {Range(RAW_DIR.data[k]) : k \in DOMAIN RAW_DIR.data}

\* C14: the merged series of a run, and so its output, holds samples of the
\* raw files of that run only: a chunk left in TEMP_DIR by an earlier run
\* over other files contributes no sample.
C14_OnlySamplesOfThisRun ==
    \A i \in DOMAIN merged_df : merged_df[i] \in RawSamples

====
